---- MODULE Spec2Model ----
(***************************************************************************)
(* GitRepository (src/manic/repository_git.py): reference classification,   *)
(* sync evaluation and checkout orchestration against a git working copy.   *)
(*                                                                         *)
(* Text is a sequence of one-character strings, so that prefix tests,       *)
(* splitting and formatting are computed as the code computes them.         *)
(***************************************************************************)
EXTENDS Naturals, Sequences, FiniteSets, TLC

VARIABLES
    decl,         \* the repository declaration: name, url, branch, tag, hash
    pathExists,   \* os.path.exists(repo_dir_path)
    gitDirExists, \* os.path.exists(repo_dir_path/.git)
    tags,         \* refs/tags of the working copy: name -> commit
    heads,        \* refs/heads of the working copy: name -> commit
    tracking,     \* refs/remotes of the working copy: "remote/branch" -> commit
    remotes,      \* remote bindings of the working copy: name -> url
    head,         \* commit HEAD points at (empty: no commits)
    listing,      \* the lines git branch -vv prints for the working copy
    porcelain,    \* what git status --porcelain prints for the working copy
    srvHeads,     \* branches of the repository at the declared URL
    srvTags,      \* tags of the repository at the declared URL
    cwd,          \* the process working directory
    pc,           \* position of the running operation
    op,           \* the public operation that is running or has run last
    savedCwd,     \* local variable cwd of the running work function
    ref,          \* local variable ref of the checkout functions
    remote_name,  \* local variable remote_name of _checkout_external_ref
    current_ref,  \* local variable current_ref of _check_sync_logic
    expected_ref, \* local variable expected_ref of _check_sync_logic
    stat,         \* the status object status() fills in
    cmds,         \* git commands issued by the current operation, in order
    fatal,        \* the fatal error that ended the operation: kind and message
    head0,        \* HEAD when the current operation started
    remotes0,     \* remote bindings when the current operation started
    cwd0,         \* working directory when the current operation started
    path0,        \* whether the directory existed when the operation started
    op0,          \* the operation that returned before this one started
    validated     \* _check_for_valid_ref returned normally in this operation

vars == <<decl, pathExists, gitDirExists, tags, heads, tracking, remotes, head,
          listing, porcelain, srvHeads, srvTags, cwd, pc, op, savedCwd, ref,
          remote_name, current_ref, expected_ref, stat, cmds, fatal,
          head0, remotes0, cwd0, path0, op0, validated>>

repoVars == <<pathExists, gitDirExists, tags, heads, tracking, remotes, head,
              listing>>
envVars == <<srvHeads, srvTags, porcelain>>

\* -------------------------------------------------------------------- text

EMPTY_STR == <<>>

LOCAL_PATH_INDICATOR == <<".">>

StartsWith(s, p) ==
    /\ Len(p) <= Len(s)
    /\ \A i \in 1..Len(p) : s[i] = p[i]

\* "{0}/{1}".format(a, b)
SlashJoin(a, b) == a \o <<"/">> \o b

PartialFns(D, R) == UNION {[S -> R] : S \in SUBSET D}

\* ---------------------------------------------------------------- universe

H1 == <<"a", "1">>
H2 == <<"b", "2">>
Commits == {H1, H2}

RV == <<"v">>
RA == <<"a">>
HEAD_NAME == <<"H", "E", "A", "D">>

U1 == <<"s", ":", "/", "/", "h", "/", "b", "/", "r">>
U2 == <<"s", ":", "/", "/", "g", "/", "b", "/", "r">>

ORIGIN == <<"o", "r", "i", "g", "i", "n">>
B_R == <<"b", "_", "r">>
UNKNOWN_REMOTE ==
    <<"u", "n", "k", "n", "o", "w", "n", "_", "r", "e", "m", "o", "t", "e">>

\* git remote lists the bindings sorted by name
RemoteNameOrder == <<B_R, ORIGIN, UNKNOWN_REMOTE>>

StartDir == "start"
BaseDir == "base"
RepoDir == "base/repo"

ComponentName == <<"c">>

\* ------------------------------------------------- command executor port

Cmd(c, args) == [cmd |-> c, args |-> args]

\* execute_subprocess appends the command to the operation's log
Issue(log, c, args) == Append(log, Cmd(c, args))

\* ------------------------------------------------------ git, information

\* git show-ref --quiet --verify refs/tags/<ref>: the exit status
GitShowrefTag(r) == IF r \in DOMAIN tags THEN 0 ELSE 1

\* git show-ref --quiet --verify refs/heads/<ref>: the exit status
GitShowrefBranch(r) == IF r \in DOMAIN heads THEN 0 ELSE 1

\* git ls-remote --exit-code --heads <remote> <ref>: the exit status
\* (2 when the remote has no such head, 128 when the remote is unusable)
GitLsremoteBranch(r, rn) ==
    IF rn \notin DOMAIN remotes THEN 128
    ELSE IF remotes[rn] # decl.url THEN 128
    ELSE IF r \in DOMAIN srvHeads THEN 0 ELSE 2

\* the commits whose full hash begins with the (non-empty) text r
AbbrevMatches(r) == {c \in Commits : r # EMPTY_STR /\ StartsWith(c, r)}

\* git rev-parse --quiet --verify <ref>^{commit}: <<exit status, output>>
\* A full hash names its commit; then the ref namespaces in git's order
\* (HEAD, refs/tags, refs/heads, refs/remotes); then a unique abbreviation.
GitRevparseCommit(r) ==
    IF r \in Commits THEN <<0, r>>
    ELSE IF r = HEAD_NAME
        THEN (IF head # EMPTY_STR THEN <<0, head>> ELSE <<1, EMPTY_STR>>)
    ELSE IF r \in DOMAIN tags THEN <<0, tags[r]>>
    ELSE IF r \in DOMAIN heads THEN <<0, heads[r]>>
    ELSE IF r \in DOMAIN tracking THEN <<0, tracking[r]>>
    ELSE IF Cardinality(AbbrevMatches(r)) = 1
        THEN <<0, CHOOSE c \in AbbrevMatches(r) : TRUE>>
    ELSE <<1, EMPTY_STR>>

\* git remote --verbose: one (fetch) and one (push) line per binding, each
\* line given as its whitespace-separated fields
RemoteLines(i) ==
    LET name == RemoteNameOrder[i]
    IN IF name \in DOMAIN remotes
       THEN << <<name, remotes[name], <<"(", "f", "e", "t", "c", "h", ")">>>>,
               <<name, remotes[name], <<"(", "p", "u", "s", "h", ")">>>> >>
       ELSE << >>

RECURSIVE RemoteLinesFrom(_)
RemoteLinesFrom(i) ==
    IF i > Len(RemoteNameOrder) THEN << >>
    ELSE RemoteLines(i) \o RemoteLinesFrom(i + 1)

GitRemoteVerbose == RemoteLinesFrom(1)

\* ---------------------------------------------------- reference classifier

RefIsTag(r) == GitShowrefTag(r) = 0

RefIsLocalBranch(r) == GitShowrefBranch(r) = 0

RefIsRemoteBranch(r, rn) == GitLsremoteBranch(r, rn) = 0

\* remote_name is None or empty in local mode: no remote probe
RefIsBranch(r, rn) ==
    LET remote_branch == IF rn # EMPTY_STR THEN RefIsRemoteBranch(r, rn)
                         ELSE FALSE
        local_branch == RefIsLocalBranch(r)
    IN local_branch \/ remote_branch

RefIsHash(r) ==
    LET res == GitRevparseCommit(r)
    IN res[1] = 0 /\ StartsWith(res[2], r)

\* the commands the three probes of a classification issue, in order
ProbeCmds(log, r, rn) ==
    LET l1 == Issue(log, "show-ref-tag", <<r>>)
        l2 == IF rn # EMPTY_STR THEN Issue(l1, "ls-remote", <<rn, r>>) ELSE l1
        l3 == Issue(l2, "show-ref-branch", <<r>>)
    IN Issue(l3, "rev-parse", <<r>>)

\* as IsUniqueTag, but a tag that is also a branch passes as unique
IsUniqueTagPrefersTag(r, rn) ==
    IF RefIsTag(r) THEN [unique |-> TRUE, msg |-> "is ok"]
    ELSE IF RefIsBranch(r, rn)
        THEN [unique |-> FALSE, msg |-> "is a branch, and not a tag."]
    ELSE IF RefIsHash(r) THEN [unique |-> TRUE, msg |-> "is ok"]
    ELSE [unique |-> FALSE,
          msg |-> "does not appear to be a valid tag, branch or hash!"]

IsUniqueTag(r, rn) ==
    LET is_tag == RefIsTag(r)
        is_branch == RefIsBranch(r, rn)
        is_hash == RefIsHash(r)
    IN IF is_tag /\ ~is_branch THEN [unique |-> TRUE, msg |-> "is ok"]
       ELSE IF is_tag /\ is_branch
           THEN [unique |-> FALSE, msg |-> "is both a branch and a tag."]
       ELSE IF ~is_tag /\ is_branch
           THEN [unique |-> FALSE, msg |-> "is a branch, and not a tag."]
       ELSE IF is_hash THEN [unique |-> TRUE, msg |-> "is ok"]
       ELSE [unique |-> FALSE,
             msg |-> "does not appear to be a valid tag, branch or hash!"]

\* a message: the format text, the text _is_unique_tag adds to it, and the
\* values formatted into it, in order
Message(fmt, more, args) == [fmt |-> fmt, more |-> more, args |-> args]

NoMessage == Message("", "", << >>)

\* _check_for_valid_ref: the outcome, the message of its fatal error and
\* the commands it issues

CheckForValidRef(r, rn) ==
    LET is_tag == RefIsTag(r)
        is_branch == RefIsBranch(r, rn)
        is_hash == RefIsHash(r)
        is_valid == is_tag \/ is_branch \/ is_hash
        uniq == IsUniqueTag(r, rn)
        log1 == ProbeCmds(cmds, r, rn)
    IN IF ~is_valid
       THEN [ok |-> FALSE, kind |-> "invalid_ref",
             msg |-> Message("In repo {0}: reference {1} does not appear to "
                             \o "be a valid tag, branch or hash! Please "
                             \o "verify the reference name (e.g. spelling), "
                             \o "is available from: {2} ",
                             "", <<decl.name, r, decl.url>>),
             log |-> log1]
       ELSE IF is_tag /\ ~uniq.unique
       THEN [ok |-> FALSE, kind |-> "not_unique_tag",
             msg |-> Message("In repo {0}: tag {1} {2}", uniq.msg,
                             <<decl.name, decl.tag>>),
             log |-> ProbeCmds(log1, r, rn)]
       ELSE [ok |-> TRUE, kind |-> "valid", msg |-> NoMessage,
             log |-> IF is_tag THEN ProbeCmds(log1, r, rn) ELSE log1]

\* ------------------------------------------------------ remote bindings

RECURSIVE FirstRemoteFor(_, _, _)
FirstRemoteFor(lines, url, i) ==
    IF i > Len(lines) THEN EMPTY_STR
    ELSE IF lines[i][2] = url THEN lines[i][1]
    ELSE FirstRemoteFor(lines, url, i + 1)

\* as DetermineRemoteName, but no binding is ever recognised
DetermineRemoteNameFindsNone == EMPTY_STR

\* _determine_remote_name: the name of the first listed binding whose url
\* equals the declared url, or the empty string
DetermineRemoteName == FirstRemoteFor(GitRemoteVerbose, decl.url, 1)

\* index of the first occurrence of the text p in s at or after i, 0 if none
RECURSIVE Find(_, _, _)
Find(s, p, i) ==
    IF i + Len(p) - 1 > Len(s) THEN 0
    ELSE IF SubSeq(s, i, i + Len(p) - 1) = p THEN i
    ELSE Find(s, p, i + 1)

Contains(s, p) == Find(s, p, 1) # 0

\* s.split(sep) for a one-character sep
RECURSIVE SplitOn(_, _)
SplitOn(s, sep) ==
    LET i == Find(s, <<sep>>, 1)
    IN IF i = 0 THEN <<s>>
       ELSE <<SubSeq(s, 1, i - 1)>> \o SplitOn(SubSeq(s, i + 1, Len(s)), sep)

\* s.replace(c, '') for every c of the set
RECURSIVE StripChars(_, _)
StripChars(s, unsafe) ==
    IF s = << >> THEN << >>
    ELSE IF Head(s) \in unsafe THEN StripChars(Tail(s), unsafe)
    ELSE <<Head(s)>> \o StripChars(Tail(s), unsafe)

SchemeSep == <<":", "/", "/">>

\* utils.is_remote_url: the url carries a protocol prefix
IsRemoteUrl(url) == Contains(url, SchemeSep)

\* utils.split_remote_url: the url without its protocol prefix
SplitRemoteUrl(url) ==
    IF IsRemoteUrl(url)
    THEN SubSeq(url, Find(url, SchemeSep, 1) + Len(SchemeSep), Len(url))
    ELSE url

\* utils.expand_local_url on an absolute path without variables
ExpandLocalUrl(url) == url

UnsafeCharacters ==
    {"!", "@", "#", "$", "%", "^", "&", "*", "(", ")", "[", "]", "{", "}",
     "\\", "/", ",", ";", "~"}

\* _create_remote_name: "<base>_<repo>" from the last two path segments
CreateRemoteName(u) ==
    LET url == IF IsRemoteUrl(u) THEN SplitRemoteUrl(u) ELSE ExpandLocalUrl(u)
        parts == SplitOn(url, "/")
        repo_name == parts[Len(parts)]
        base_name == StripChars(parts[Len(parts) - 1], UnsafeCharacters)
    IN base_name \o <<"_">> \o repo_name

\* ------------------------------------------------------ head state parser

Letters ==
    {"a", "b", "c", "d", "e", "f", "g", "h", "i", "j", "k", "l", "m",
     "n", "o", "p", "q", "r", "s", "t", "u", "v", "w", "x", "y", "z"}
    \cup
    {"A", "B", "C", "D", "E", "F", "G", "H", "I", "J", "K", "L", "M",
     "N", "O", "P", "Q", "R", "S", "T", "U", "V", "W", "X", "Y", "Z"}

Digits == {"0", "1", "2", "3", "4", "5", "6", "7", "8", "9"}

\* the regular-expression classes \w, \s and [\w\-./]
WordChars == Letters \cup Digits \cup {"_"}
SpaceChars == {" ", "\t"}
RefChars == WordChars \cup {"-", ".", "/"}

\* index of the last character of the longest run of class characters that
\* starts at i (i - 1 when s[i] is not of the class)
RECURSIVE RunEnd(_, _, _)
RunEnd(s, i, class) ==
    IF i > Len(s) THEN i - 1
    ELSE IF s[i] \in class THEN RunEnd(s, i + 1, class)
    ELSE i - 1

LitAt(s, i, lit) ==
    /\ i >= 1
    /\ i + Len(lit) - 1 <= Len(s)
    /\ SubSeq(s, i, i + Len(lit) - 1) = lit

NoMatch == [found |-> FALSE, group |-> EMPTY_STR]
Matched(g) == [found |-> TRUE, group |-> g]

\* position after "\* \((?:[\w]+[\s]+)?<word> " matched at p, 0 if no match:
\* the optional "HEAD " prefix is tried first, then the pattern without it
DetachedPrefixEnd(s, p, word) ==
    LET q == p + 3
        w == RunEnd(s, q, WordChars)
        b == RunEnd(s, w + 1, SpaceChars)
    IN IF ~LitAt(s, p, <<"*", " ", "(">>) THEN 0
       ELSE IF w >= q /\ b >= w + 1 /\ LitAt(s, b + 1, word)
           THEN b + 1 + Len(word)
       ELSE IF LitAt(s, q, word) THEN q + Len(word)
       ELSE 0

\* RE_DETACHED_AT matched at position p
DetachedAtAt(s, p) ==
    LET g == DetachedPrefixEnd(s, p, <<"d", "e", "t", "a", "c", "h", "e", "d",
                                       " ", "a", "t", " ">>)
        e == RunEnd(s, g, RefChars)
    IN IF g # 0 /\ e >= g /\ LitAt(s, e + 1, <<")">>)
       THEN Matched(SubSeq(s, g, e))
       ELSE NoMatch

\* RE_DETACHED_FROM matched at position p
DetachedFromAt(s, p) ==
    LET g == DetachedPrefixEnd(s, p, <<"d", "e", "t", "a", "c", "h", "e", "d",
                                       " ", "f", "r", "o", "m", " ">>)
        e == RunEnd(s, g, RefChars)
        b == RunEnd(s, e + 2, SpaceChars)
        h == RunEnd(s, b + 1, WordChars)
    IN IF /\ g # 0
          /\ e >= g
          /\ LitAt(s, e + 1, <<")">>)
          /\ b >= e + 2
          /\ h >= b + 1
       THEN Matched(SubSeq(s, b + 1, h))
       ELSE NoMatch

\* RE_TRACKING matched at position p: "[name]" or "[name: ahead n, behind m]"
TrackingAt(s, p) ==
    LET g == p + 1
        e == RunEnd(s, g, RefChars)
        t == RunEnd(s, e + 2, WordChars \cup SpaceChars \cup {","})
    IN IF ~(LitAt(s, p, <<"[">>) /\ e >= g) THEN NoMatch
       ELSE IF LitAt(s, e + 1, <<"]">>) THEN Matched(SubSeq(s, g, e))
       ELSE IF /\ LitAt(s, e + 1, <<":">>)
               /\ e + 2 <= Len(s)
               /\ s[e + 2] \in SpaceChars
               /\ t >= e + 3
               /\ LitAt(s, t + 1, <<"]">>)
           THEN Matched(SubSeq(s, g, e))
       ELSE NoMatch

\* the named pattern matched at position p
MatchAt(re, s, p) ==
    CASE re = "RE_DETACHED_AT" -> DetachedAtAt(s, p)
      [] re = "RE_DETACHED_FROM" -> DetachedFromAt(s, p)
      [] re = "RE_TRACKING" -> TrackingAt(s, p)

\* regex.search: the match at the leftmost position where the pattern matches
RECURSIVE Search(_, _, _)
Search(re, s, p) ==
    IF p > Len(s) THEN NoMatch
    ELSE IF MatchAt(re, s, p).found THEN MatchAt(re, s, p)
    ELSE Search(re, s, p + 1)

\* s.split(): the maximal runs of non-whitespace characters
RECURSIVE SplitWhitespace(_)
SplitWhitespace(s) ==
    IF s = << >> THEN << >>
    ELSE IF Head(s) \in SpaceChars THEN SplitWhitespace(Tail(s))
    ELSE LET n == CHOOSE k \in 1..Len(s) :
                     /\ \A j \in 1..k : s[j] \notin SpaceChars
                     /\ (k = Len(s) \/ s[k + 1] \in SpaceChars)
         IN <<SubSeq(s, 1, n)>> \o SplitWhitespace(SubSeq(s, n + 1, Len(s)))

\* s.strip()
RECURSIVE Strip(_)
Strip(s) ==
    IF s = << >> THEN s
    ELSE IF Head(s) \in SpaceChars THEN Strip(Tail(s))
    ELSE IF s[Len(s)] \in SpaceChars THEN Strip(SubSeq(s, 1, Len(s) - 1))
    ELSE s

\* the first line of the listing that starts with '*', or the empty text
RECURSIVE ActiveLine(_)
ActiveLine(lines) ==
    IF lines = << >> THEN EMPTY_STR
    ELSE IF StartsWith(Head(lines), <<"*">>) THEN Head(lines)
    ELSE ActiveLine(Tail(lines))

\* the output text of a command from its lines
RECURSIVE JoinLines(_)
JoinLines(lines) ==
    IF lines = << >> THEN << >>
    ELSE Head(lines) \o <<"\n">> \o JoinLines(Tail(lines))

\* _current_ref on the output of git branch -vv (its lines): the name, or
\* the fatal DEV_ERROR with the line and the output, or the IndexError that
\* ref.split()[1] raises on a line of one token
CurrentRef(lines) ==
    LET line == ActiveLine(lines)
        at == Search("RE_DETACHED_AT", line, 1)
        from == Search("RE_DETACHED_FROM", line, 1)
        trk == Search("RE_TRACKING", line, 1)
        toks == SplitWhitespace(line)
        dev(m) == [status |-> "fatal", value |-> EMPTY_STR,
                   msg |-> Message("DEV_ERROR: {2} ref: {0} git_output {1}",
                                   m, <<line, JoinLines(lines)>>)]
        ok(v) == [status |-> "ok", value |-> Strip(v), msg |-> NoMessage]
    IN IF line = EMPTY_STR THEN ok(EMPTY_STR)
       ELSE IF Contains(line, <<"d", "e", "t", "a", "c", "h", "e", "d", " ",
                                "a", "t">>)
           THEN (IF at.found THEN ok(at.group)
                 ELSE dev("regex to detect detached at head state failed!"))
       ELSE IF Contains(line, <<"d", "e", "t", "a", "c", "h", "e", "d", " ",
                                "f", "r", "o", "m">>)
           THEN (IF from.found THEN ok(from.group)
                 ELSE dev("regex to detect detached from head state failed!"))
       ELSE IF Contains(line, <<"[">>)
           THEN (IF trk.found THEN ok(trk.group)
                 ELSE dev("regex to detect tracking branch failed."))
       ELSE IF Len(toks) < 2
           THEN [status |-> "exception", value |-> EMPTY_STR,
                 msg |-> Message("IndexError: list index out of range", "",
                                 << >>)]
       ELSE ok(toks[2])

\* ------------------------------------------------------ git, side effects

\* refs/remotes/<rn>/* as a fetch from the declared url leaves them
FetchedTracking(rn) ==
    LET keys == {SlashJoin(rn, b) : b \in DOMAIN srvHeads}
    IN [k \in keys |->
           srvHeads[CHOOSE b \in DOMAIN srvHeads : SlashJoin(rn, b) = k]]

\* f overridden by g where g is defined
Override(f, g) ==
    [k \in DOMAIN f \cup DOMAIN g |-> IF k \in DOMAIN g THEN g[k] ELSE f[k]]

\* what HEAD is: on a local branch (with the remote it tracks, or none), or
\* detached at a tag, a remote branch or a hash
Attached(b, rn) == [kind |-> "branch", name |-> b, remote |-> rn]
DetachedAt(x) == [kind |-> "detached", name |-> x, remote |-> EMPTY_STR]

\* the first line of the message of a commit
Subject(commit) ==
    IF commit = H2 THEN <<"f", "i", "x", " ", "d", "e", "t", "a", "c", "h",
                          "e", "d", " ", "a", "t", " ", "x">> ELSE <<"s">>

\* a line of git branch -vv: marker, name, hash, [upstream], subject
BranchLine(marker, name, hash, rn) ==
    marker \o <<" ">> \o name \o <<" ">> \o hash \o <<" ">>
    \o (IF rn # EMPTY_STR
        THEN <<"[">> \o SlashJoin(rn, name) \o <<"]", " ">>
        ELSE << >>)
    \o Subject(hash)

RECURSIVE InactiveLines(_, _)
InactiveLines(hs, names) ==
    IF names = {} THEN << >>
    ELSE LET n == CHOOSE x \in names : TRUE
         IN <<BranchLine(<<" ">>, n, hs[n], EMPTY_STR)>>
            \o InactiveLines(hs, names \ {n})

\* "* (HEAD detached at "
DetachedAtOpen ==
    <<"*", " ", "(", "H", "E", "A", "D", " ", "d", "e", "t", "a", "c", "h",
      "e", "d", " ", "a", "t", " ">>

\* git branch -vv for the local branches hs with HEAD as in active, at commit
BranchListing(hs, active, commit) ==
    IF active.kind = "branch"
    THEN <<BranchLine(<<"*">>, active.name, commit, active.remote)>>
         \o InactiveLines(hs, DOMAIN hs \ {active.name})
    ELSE <<DetachedAtOpen \o active.name \o <<")", " ">> \o commit \o <<" ">>
           \o Subject(commit)>>
         \o InactiveLines(hs, DOMAIN hs)

\* the remote-tracking branches named <remote>/<r>, for git checkout's
\* creation of a local branch from the only remote branch of that name
TrackingNamed(r) ==
    {k \in DOMAIN tracking :
        /\ Len(k) > Len(r) + 1
        /\ SubSeq(k, Len(k) - Len(r), Len(k)) = <<"/">> \o r}

\* git checkout <target>: a local branch is checked out by name; any other
\* commit-ish detaches HEAD at it; a name that only one remote-tracking
\* branch carries becomes a new local branch; anything else fails
GitCheckoutResult(target) ==
    LET res == GitRevparseCommit(target)
    IN IF target \in DOMAIN heads
       THEN [ok |-> TRUE, commit |-> heads[target], heads |-> heads,
             active |-> Attached(target, EMPTY_STR)]
       ELSE IF res[1] = 0
       THEN [ok |-> TRUE, commit |-> res[2], heads |-> heads,
             active |-> DetachedAt(target)]
       ELSE IF Cardinality(TrackingNamed(target)) = 1
       THEN LET k == CHOOSE x \in TrackingNamed(target) : TRUE
            IN [ok |-> TRUE, commit |-> tracking[k],
                heads |-> Override(heads, [x \in {target} |-> tracking[k]]),
                active |-> Attached(target,
                                    SubSeq(k, 1, Len(k) - Len(target) - 1))]
       ELSE [ok |-> FALSE, commit |-> head, heads |-> heads,
             active |-> DetachedAt(EMPTY_STR)]

\* ---------------------------------------------------------- fatal errors

NoFatal == [kind |-> "none", msg |-> NoMessage]

\* utils.fatal_error: the operation ends here; nothing after the call runs
FatalError(kind, msg) == [kind |-> kind, msg |-> msg]

\* execute_subprocess of a command whose status the caller does not ask
\* for: a non-zero exit status is fatal
CommandFailed(c) == FatalError(c, NoMessage)

\* ------------------------------------------------------------- checkout

histVars == <<head0, remotes0, cwd0, path0, op0>>
localVars == <<savedCwd, ref, remote_name, current_ref, expected_ref>>

\* as Checkout, but the clone is made whether the directory exists or not
CheckoutAlwaysClones ==
    /\ pc = "idle"
    /\ op' = "checkout"
    /\ cmds' = << >>
    /\ fatal' = NoFatal
    /\ validated' = FALSE
    /\ head0' = head
    /\ remotes0' = remotes
    /\ cwd0' = cwd
    /\ path0' = pathExists
    /\ op0' = op
    /\ pc' = "clone"
    /\ UNCHANGED <<decl, repoVars, envVars, cwd, localVars, stat>>

\* checkout(), lines 82-85: clone when the directory is absent
Checkout ==
    /\ pc = "idle"
    /\ op' = "checkout"
    /\ cmds' = << >>
    /\ fatal' = NoFatal
    /\ validated' = FALSE
    /\ head0' = head
    /\ remotes0' = remotes
    /\ cwd0' = cwd
    /\ path0' = pathExists
    /\ op0' = op
    /\ pc' = IF pathExists THEN "checkout_ref" ELSE "clone"
    /\ UNCHANGED <<decl, repoVars, envVars, cwd, localVars, stat>>

\* _clone_repo: save the directory, enter the base directory, clone, restore
CloneRepo ==
    /\ pc = "clone"
    /\ cmds' = Issue(cmds, "clone", <<decl.url>>)
    /\ \E ok \in BOOLEAN :
        IF ok
        THEN /\ pathExists' = TRUE
             /\ gitDirExists' = TRUE
             /\ remotes' = [n \in {ORIGIN} |-> decl.url]
             /\ tracking' = FetchedTracking(ORIGIN)
             /\ tags' = srvTags
             /\ IF DOMAIN srvHeads = {}
                THEN /\ heads' = << >>
                     /\ head' = EMPTY_STR
                     /\ listing' = << >>
                ELSE \E b \in DOMAIN srvHeads :
                        /\ heads' = [n \in {b} |-> srvHeads[b]]
                        /\ head' = srvHeads[b]
                        /\ listing' = BranchListing(heads', Attached(b, ORIGIN),
                                                    head')
             /\ cwd' = cwd
             /\ pc' = "checkout_ref"
             /\ fatal' = fatal
        ELSE /\ cwd' = BaseDir
             /\ pc' = "fatal"
             /\ fatal' = CommandFailed("clone failed")
             /\ UNCHANGED repoVars
    /\ UNCHANGED <<decl, envVars, op, localVars, stat, histVars,
                   validated>>

\* _checkout_ref, lines 381-386: save the directory, enter the working copy
CheckoutRef ==
    /\ pc = "checkout_ref"
    /\ savedCwd' = cwd
    /\ cwd' = RepoDir
    /\ pc' = IF decl.url = LOCAL_PATH_INDICATOR THEN "local_ref"
             ELSE "external_ref"
    /\ UNCHANGED <<decl, repoVars, envVars, op, ref, remote_name, current_ref,
                   expected_ref, stat, cmds, fatal, histVars, validated>>

\* the reference the checkout functions pick: tag, else branch, else hash
SelectRef ==
    IF decl.tag # EMPTY_STR THEN decl.tag
    ELSE IF decl.branch # EMPTY_STR THEN decl.branch
    ELSE decl.hash

\* as CheckoutLocalRef, but the reference is validated against origin too
CheckoutLocalRefWithRemote ==
    /\ pc = "local_ref"
    /\ ref' = SelectRef
    /\ remote_name' = ORIGIN
    /\ pc' = "validate"
    /\ UNCHANGED <<decl, repoVars, envVars, cwd, op, savedCwd, current_ref,
                   expected_ref, stat, cmds, fatal, histVars, validated>>

\* _checkout_local_ref, lines 395-400
CheckoutLocalRef ==
    /\ pc = "local_ref"
    /\ ref' = SelectRef
    /\ remote_name' = EMPTY_STR
    /\ pc' = "validate"
    /\ UNCHANGED <<decl, repoVars, envVars, cwd, op, savedCwd, current_ref,
                   expected_ref, stat, cmds, fatal, histVars, validated>>

\* _checkout_external_ref, lines 408-418: find the binding of the declared
\* url, or add one under a new name
CheckoutExternalRef ==
    /\ pc = "external_ref"
    /\ ref' = SelectRef
    /\ LET found == DetermineRemoteName
           log1 == Issue(cmds, "remote-verbose", << >>)
           created == CreateRemoteName(decl.url)
       IN IF found # EMPTY_STR
          THEN /\ remote_name' = found
               /\ cmds' = log1
               /\ pc' = "fetch"
               /\ UNCHANGED <<remotes, fatal>>
          ELSE /\ remote_name' = created
               /\ cmds' = Issue(log1, "remote-add", <<created, decl.url>>)
               /\ IF created \in DOMAIN remotes
                  THEN /\ pc' = "fatal"
                       /\ fatal' = CommandFailed("remote-add failed")
                       /\ UNCHANGED remotes
                  ELSE /\ pc' = "fetch"
                       /\ remotes' =
                              Override(remotes, [n \in {created} |-> decl.url])
                       /\ UNCHANGED fatal
    /\ UNCHANGED <<decl, pathExists, gitDirExists, tags, heads, tracking, head,
                   listing, envVars, cwd, op, savedCwd, current_ref,
                   expected_ref, stat, histVars, validated>>

\* as GitFetch, but nothing is fetched
GitFetchSkipped ==
    /\ pc = "fetch"
    /\ pc' = "validate"
    /\ UNCHANGED <<decl, repoVars, envVars, cwd, op, localVars, stat, cmds,
                   fatal, histVars, validated>>

\* _checkout_external_ref, line 419: git fetch --tags <remote_name>
GitFetch ==
    /\ pc = "fetch"
    /\ cmds' = Issue(cmds, "fetch", <<remote_name>>)
    /\ \E ok \in BOOLEAN :
        IF ok
        THEN /\ tracking' = Override(tracking, FetchedTracking(remote_name))
             /\ tags' = Override(srvTags, tags)
             /\ pc' = "validate"
             /\ UNCHANGED fatal
        ELSE /\ pc' = "fatal"
             /\ fatal' = CommandFailed("fetch failed")
             /\ UNCHANGED <<tracking, tags>>
    /\ UNCHANGED <<decl, pathExists, gitDirExists, heads, remotes, head,
                   listing, envVars, cwd, op, localVars, stat, histVars,
                   validated>>

\* as ValidateRef, but the checkout goes on after a rejected reference
ValidateRefGoesOn ==
    /\ pc = "validate"
    /\ LET res == CheckForValidRef(ref, remote_name)
       IN /\ cmds' = res.log
          /\ validated' = res.ok
          /\ pc' = "git_checkout"
          /\ UNCHANGED fatal
    /\ UNCHANGED <<decl, repoVars, envVars, cwd, op, localVars, stat,
                   histVars>>

\* the call of _check_for_valid_ref, lines 402 and 424
ValidateRef ==
    /\ pc = "validate"
    /\ LET res == CheckForValidRef(ref, remote_name)
       IN /\ cmds' = res.log
          /\ IF res.ok
             THEN /\ validated' = TRUE
                  /\ pc' = "git_checkout"
                  /\ UNCHANGED fatal
             ELSE /\ pc' = "fatal"
                  /\ fatal' = FatalError(res.kind, res.msg)
                  /\ UNCHANGED validated
    /\ UNCHANGED <<decl, repoVars, envVars, cwd, op, localVars, stat,
                   histVars>>

\* as CheckoutTarget, but no reference is qualified
CheckoutTargetUnqualified == ref

\* as CheckoutTarget, but every reference of a remote is qualified
CheckoutTargetQualifiesAll ==
    IF remote_name # EMPTY_STR THEN SlashJoin(remote_name, ref) ELSE ref

\* the argument of git checkout: a branch of a remote is qualified by the
\* binding name (lines 426-427); in local mode the reference is used as is
CheckoutTarget ==
    IF remote_name # EMPTY_STR /\ decl.branch # EMPTY_STR
    THEN SlashJoin(remote_name, ref)
    ELSE ref

\* _git_checkout_ref, lines 403 and 428
GitCheckoutRef ==
    /\ pc = "git_checkout"
    /\ cmds' = Issue(cmds, "checkout", <<CheckoutTarget>>)
    /\ LET res == GitCheckoutResult(CheckoutTarget)
       IN IF res.ok
          THEN /\ head' = res.commit
               /\ heads' = res.heads
               /\ listing' = BranchListing(res.heads, res.active, res.commit)
               /\ pc' = "restore"
               /\ UNCHANGED fatal
          ELSE /\ pc' = "fatal"
               /\ fatal' = CommandFailed("checkout failed")
               /\ UNCHANGED <<head, heads, listing>>
    /\ UNCHANGED <<decl, pathExists, gitDirExists, tags, tracking, remotes,
                   envVars, cwd, op, localVars, stat, histVars,
                   validated>>

\* _checkout_ref, line 387: back to the saved directory
RestoreCwd ==
    /\ pc = "restore"
    /\ cwd' = savedCwd
    /\ pc' = "idle"
    /\ UNCHANGED <<decl, repoVars, envVars, op, localVars, stat, cmds, fatal,
                   histVars, validated>>

\* --------------------------------------------------------------- status

\* externals_status.ExternalStatus: the states and a fresh status object
DEFAULT == "DEFAULT"
STATUS_OK == "STATUS_OK"
MODEL_MODIFIED == "MODEL_MODIFIED"
STATUS_ERROR == "STATUS_ERROR"
UNKNOWN == "UNKNOWN"
DIRTY == "DIRTY"

NewStatus ==
    [sync_state |-> DEFAULT, clean_state |-> DEFAULT,
     current_version |-> EMPTY_STR, expected_version |-> EMPTY_STR,
     status_output |-> EMPTY_STR]

\* git log -1 --format="%H": the full hash of HEAD between the quotes of the
\* format argument; nothing when there is no commit
GitLogHash ==
    IF head = EMPTY_STR THEN EMPTY_STR ELSE <<"\"">> \o head \o <<"\"">>

\* s.strip('"')
RECURSIVE StripQuotes(_)
StripQuotes(s) ==
    IF s = << >> THEN s
    ELSE IF Head(s) = "\"" THEN StripQuotes(Tail(s))
    ELSE IF s[Len(s)] = "\"" THEN StripQuotes(SubSeq(s, 1, Len(s) - 1))
    ELSE s

\* git status: the verbose text kept for the user
GitStatusVerbose == <<"s", "t", "a", "t", "u", "s">>

\* as StatusV1zIsDirty, but only changes that are not staged count
StatusV1zUnstagedOnly(git_output) ==
    git_output # EMPTY_STR /\ git_output[1] = " "

\* _status_v1z_is_dirty
StatusV1zIsDirty(git_output) == git_output # EMPTY_STR

\* as CompareRefs, but on the names of the references, not their hashes
CompareRefsByName(cur, expected) ==
    IF stat.current_version = stat.expected_version THEN STATUS_OK
    ELSE MODEL_MODIFIED

\* compare_refs, lines 249-257
CompareRefs(cur, expected) ==
    IF cur = expected THEN STATUS_OK ELSE MODEL_MODIFIED

\* status(), line 94: a call with a fresh status object
Status ==
    /\ pc = "idle"
    /\ op' = "status"
    /\ cmds' = << >>
    /\ fatal' = NoFatal
    /\ validated' = FALSE
    /\ head0' = head
    /\ remotes0' = remotes
    /\ cwd0' = cwd
    /\ path0' = pathExists
    /\ op0' = op
    /\ stat' = NewStatus
    /\ pc' = "check_sync"
    /\ UNCHANGED <<decl, repoVars, envVars, cwd, localVars>>

\* _check_sync, lines 226-239
CheckSync ==
    /\ pc = "check_sync"
    /\ IF ~pathExists
       THEN /\ stat' = [stat EXCEPT !.sync_state = STATUS_ERROR]
            /\ pc' = "status_exists"
       ELSE IF ~gitDirExists
       THEN /\ stat' = [stat EXCEPT !.sync_state = UNKNOWN]
            /\ pc' = "status_exists"
       ELSE /\ pc' = "sync_logic"
            /\ UNCHANGED stat
    /\ UNCHANGED <<decl, repoVars, envVars, cwd, op, localVars, cmds, fatal,
                   histVars, validated>>

\* _check_sync_logic, lines 259-264: enter the working copy, read HEAD's hash
SyncCurrentHash ==
    /\ pc = "sync_logic"
    /\ savedCwd' = cwd
    /\ cwd' = RepoDir
    /\ cmds' = Issue(cmds, "log-hash", << >>)
    /\ current_ref' = StripQuotes(Strip(GitLogHash))
    /\ pc' = "sync_expected"
    /\ UNCHANGED <<decl, repoVars, envVars, op, ref, remote_name, expected_ref,
                   stat, fatal, histVars, validated>>

\* as SyncExpectedRef, but a branch of a remote url is not qualified
SyncExpectedRefUnqualified ==
    /\ pc = "sync_expected"
    /\ IF decl.branch = EMPTY_STR /\ decl.hash = EMPTY_STR
          /\ decl.tag = EMPTY_STR
       THEN /\ pc' = "fatal"
            /\ fatal' = FatalError("configuration", NoMessage)
            /\ UNCHANGED expected_ref
       ELSE /\ pc' = "sync_names"
            /\ expected_ref' = IF decl.branch # EMPTY_STR THEN decl.branch
                               ELSE IF decl.hash # EMPTY_STR THEN decl.hash
                               ELSE decl.tag
            /\ UNCHANGED fatal
    /\ UNCHANGED <<decl, repoVars, envVars, cwd, op, savedCwd, ref, current_ref,
                   remote_name, cmds, stat, histVars, validated>>

\* _check_sync_logic, lines 266-284: the expected reference
SyncExpectedRef ==
    /\ pc = "sync_expected"
    /\ IF decl.branch # EMPTY_STR
       THEN IF decl.url = LOCAL_PATH_INDICATOR
            THEN /\ expected_ref' = decl.branch
                 /\ pc' = "sync_names"
                 /\ UNCHANGED <<remote_name, cmds, fatal>>
            ELSE /\ remote_name' = DetermineRemoteName
                 /\ cmds' = Issue(cmds, "remote-verbose", << >>)
                 /\ expected_ref' =
                        IF remote_name' = EMPTY_STR
                        THEN SlashJoin(UNKNOWN_REMOTE, decl.branch)
                        ELSE SlashJoin(remote_name', decl.branch)
                 /\ pc' = "sync_names"
                 /\ UNCHANGED fatal
       ELSE IF decl.hash # EMPTY_STR
       THEN /\ expected_ref' = decl.hash
            /\ pc' = "sync_names"
            /\ UNCHANGED <<remote_name, cmds, fatal>>
       ELSE IF decl.tag # EMPTY_STR
       THEN /\ expected_ref' = decl.tag
            /\ pc' = "sync_names"
            /\ UNCHANGED <<remote_name, cmds, fatal>>
       ELSE /\ pc' = "fatal"
            /\ fatal' = FatalError("configuration",
                    Message("In repo {0}: none of branch, hash or tag are set",
                            "", <<decl.name>>))
            /\ UNCHANGED <<remote_name, cmds, expected_ref>>
    /\ UNCHANGED <<decl, repoVars, envVars, cwd, op, savedCwd, ref, current_ref,
                   stat, histVars, validated>>

\* _check_sync_logic, lines 287-288: the names of the current and the
\* expected reference
SyncRecordNames ==
    /\ pc = "sync_names"
    /\ cmds' = Issue(cmds, "branch-vv", << >>)
    /\ LET cur == CurrentRef(listing)
       IN IF cur.status = "ok"
          THEN /\ stat' = [stat EXCEPT !.current_version = cur.value,
                                       !.expected_version = expected_ref]
               /\ pc' = "sync_compare"
               /\ UNCHANGED fatal
          ELSE /\ pc' = "fatal"
               /\ fatal' = FatalError(IF cur.status = "fatal" THEN "parser"
                                      ELSE "exception", cur.msg)
               /\ UNCHANGED stat
    /\ UNCHANGED <<decl, repoVars, envVars, cwd, op, localVars, histVars,
                   validated>>

\* as SyncCompare, but the expected reference is resolved first, and one
\* that does not resolve gives MODEL_MODIFIED
SyncCompareResolvesFirst ==
    /\ pc = "sync_compare"
    /\ LET res == GitRevparseCommit(expected_ref)
       IN /\ cmds' = Issue(cmds, "rev-parse", <<expected_ref>>)
          /\ stat' = [stat EXCEPT !.sync_state =
                          IF res[1] # 0 THEN MODEL_MODIFIED
                          ELSE IF current_ref = EMPTY_STR THEN UNKNOWN
                          ELSE CompareRefs(current_ref, res[2])]
    /\ cwd' = savedCwd
    /\ pc' = "status_exists"
    /\ UNCHANGED <<decl, repoVars, envVars, op, localVars, fatal,
                   histVars, validated>>

\* _check_sync_logic, lines 290-305: the verdict, and back to the saved
\* directory
SyncCompare ==
    /\ pc = "sync_compare"
    /\ IF current_ref = EMPTY_STR
       THEN /\ stat' = [stat EXCEPT !.sync_state = UNKNOWN]
            /\ UNCHANGED cmds
       ELSE LET res == GitRevparseCommit(expected_ref)
            IN /\ cmds' = Issue(cmds, "rev-parse", <<expected_ref>>)
               /\ stat' = [stat EXCEPT !.sync_state =
                               IF res[1] # 0 THEN MODEL_MODIFIED
                               ELSE CompareRefs(current_ref, res[2])]
    /\ cwd' = savedCwd
    /\ pc' = "status_exists"
    /\ UNCHANGED <<decl, repoVars, envVars, op, localVars, fatal,
                   histVars, validated>>

\* as StatusPathExists, but the summary is made for a missing directory too
StatusAlwaysSummary ==
    /\ pc = "status_exists"
    /\ pc' = "summary"
    /\ UNCHANGED <<decl, repoVars, envVars, cwd, op, localVars, stat, cmds,
                   fatal, histVars, validated>>

\* status(), line 95: the summary only for an existing directory
StatusPathExists ==
    /\ pc = "status_exists"
    /\ pc' = IF pathExists THEN "summary" ELSE "idle"
    /\ UNCHANGED <<decl, repoVars, envVars, cwd, op, localVars, stat, cmds,
                   fatal, histVars, validated>>

\* as StatusSummary, but the summary is written into a fresh status object
StatusSummaryFresh ==
    /\ pc = "summary"
    /\ cmds' = Issue(Issue(cmds, "status-porcelain", << >>),
                     "status-verbose", << >>)
    /\ stat' = [NewStatus EXCEPT
                   !.clean_state = IF StatusV1zIsDirty(porcelain) THEN DIRTY
                                   ELSE STATUS_OK,
                   !.status_output = GitStatusVerbose]
    /\ savedCwd' = cwd
    /\ cwd' = cwd
    /\ pc' = "idle"
    /\ UNCHANGED <<decl, repoVars, envVars, op, ref, remote_name, current_ref,
                   expected_ref, fatal, histVars, validated>>

\* _status_summary, lines 606-618
StatusSummary ==
    /\ pc = "summary"
    /\ cmds' = Issue(Issue(cmds, "status-porcelain", << >>),
                     "status-verbose", << >>)
    /\ stat' = [stat EXCEPT
                   !.clean_state = IF StatusV1zIsDirty(porcelain) THEN DIRTY
                                   ELSE STATUS_OK,
                   !.status_output = GitStatusVerbose]
    /\ savedCwd' = cwd
    /\ cwd' = cwd
    /\ pc' = "idle"
    /\ UNCHANGED <<decl, repoVars, envVars, op, ref, remote_name, current_ref,
                   expected_ref, fatal, histVars, validated>>

\* ------------------------------------------------------- initial states

\* a declaration sets at most one of branch, tag and hash
Declarations ==
    {d \in [name : {ComponentName}, url : {LOCAL_PATH_INDICATOR, U1},
            branch : {EMPTY_STR, RV}, tag : {EMPTY_STR, RV, RA},
            hash : {EMPTY_STR, RA, RV, HEAD_NAME}] :
        Cardinality({f \in {"branch", "tag", "hash"} : d[f] # EMPTY_STR}) <= 1}

InitProcess ==
    /\ cwd = StartDir
    /\ pc = "idle"
    /\ op = "none"
    /\ savedCwd = StartDir
    /\ ref = EMPTY_STR
    /\ remote_name = EMPTY_STR
    /\ current_ref = EMPTY_STR
    /\ expected_ref = EMPTY_STR
    /\ stat = NewStatus
    /\ cmds = << >>
    /\ fatal = NoFatal
    /\ head0 = head
    /\ remotes0 = remotes
    /\ cwd0 = StartDir
    /\ path0 = pathExists
    /\ op0 = "none"
    /\ validated = FALSE

InitCheckout ==
    /\ decl \in Declarations
    /\ srvHeads \in PartialFns({RV}, Commits)
    /\ srvTags \in PartialFns({RV}, {H1})
    /\ pathExists \in BOOLEAN
    /\ gitDirExists = pathExists
    /\ IF pathExists
       THEN /\ tags \in {t \in PartialFns({RV, RA}, Commits) :
                            RA \in DOMAIN t => t[RA] = H2}
            /\ heads \in PartialFns({RV}, Commits)
            /\ remotes \in PartialFns({B_R, ORIGIN}, {U1, U2})
            /\ head \in Commits
            /\ listing = BranchListing(heads, DetachedAt(head), head)
       ELSE /\ tags = << >>
            /\ heads = << >>
            /\ remotes = << >>
            /\ head = EMPTY_STR
            /\ listing = << >>
    /\ tracking = << >>
    /\ porcelain = EMPTY_STR
    /\ InitProcess

NextCheckout ==
    \/ Checkout
    \/ CloneRepo
    \/ CheckoutRef
    \/ CheckoutLocalRef
    \/ CheckoutExternalRef
    \/ GitFetch
    \/ ValidateRef
    \/ GitCheckoutRef
    \/ RestoreCwd

SpecCheckout == InitCheckout /\ [][NextCheckout]_vars

\* outputs of git branch -vv: on a tracking branch, detached at a tag,
\* detached at a name the patterns do not cover, and no active line
\* "* m a1 [origin/v: ahead 3] s"
LineTracking ==
    <<"*", " ", "m", " ", "a", "1", " ", "[", "o", "r", "i", "g", "i", "n",
      "/", "v", ":", " ", "a", "h", "e", "a", "d", " ", "3", "]", " ", "s">>

\* "* (HEAD detached at v) a1 s"
LineDetachedAt ==
    <<"*", " ", "(", "H", "E", "A", "D", " ", "d", "e", "t", "a", "c", "h",
      "e", "d", " ", "a", "t", " ", "v", ")", " ", "a", "1", " ", "s">>

\* "* (HEAD detached at v+) a1 s"
LineDetachedAtPlus ==
    <<"*", " ", "(", "H", "E", "A", "D", " ", "d", "e", "t", "a", "c", "h",
      "e", "d", " ", "a", "t", " ", "v", "+", ")", " ", "a", "1", " ", "s">>

\* "  m b2 s"
LineInactive ==
    <<" ", " ", "m", " ", "b", "2", " ", "s">>

\* outputs of git status --porcelain: clean, a file changed in the working
\* tree, a file added to the index
PorcelainOutputs == {EMPTY_STR, <<" ", "M", " ", "f">>, <<"A", " ", " ", "f">>}

StatusListings ==
    {<<LineTracking>>, <<LineDetachedAt, LineInactive>>,
     <<LineDetachedAtPlus>>, << >>}

InitStatus ==
    /\ decl \in Declarations
    /\ srvHeads = << >>
    /\ srvTags = << >>
    /\ pathExists \in BOOLEAN
    /\ IF pathExists
       THEN /\ gitDirExists \in BOOLEAN
            /\ porcelain \in PorcelainOutputs
       ELSE /\ gitDirExists = FALSE
            /\ porcelain = EMPTY_STR
    /\ IF gitDirExists
       THEN /\ tags \in PartialFns({RV}, {H1})
            /\ heads \in PartialFns({RV}, {H2})
            /\ remotes \in
                   {r \in PartialFns({ORIGIN, UNKNOWN_REMOTE}, {U1, U2}) :
                       UNKNOWN_REMOTE \in DOMAIN r => r[UNKNOWN_REMOTE] = U2}
            /\ tracking \in
                   PartialFns({SlashJoin(n, RV) : n \in DOMAIN remotes}, {H1})
            /\ head \in Commits \cup {EMPTY_STR}
            /\ listing \in StatusListings
       ELSE /\ tags = << >>
            /\ heads = << >>
            /\ remotes = << >>
            /\ tracking = << >>
            /\ head = EMPTY_STR
            /\ listing = << >>
    /\ InitProcess

NextStatus ==
    \/ Status
    \/ CheckSync
    \/ SyncCurrentHash
    \/ SyncExpectedRef
    \/ SyncRecordNames
    \/ SyncCompare
    \/ StatusPathExists
    \/ StatusSummary

SpecStatus == InitStatus /\ [][NextStatus]_vars

\* checkout() and status() of one declaration and path, in any order, each
\* started when the one before it has returned
NextRound == NextCheckout \/ NextStatus

SpecRound == InitCheckout /\ [][NextRound]_vars

\* ------------------------------------------- head states of the listing

\* The active line of git branch -vv by its parts: the form of the head
\* state, the word git puts before "detached" (newer versions: HEAD), the
\* name in the parentheses or brackets, the hash and the commit subject.
FormNames == {"at", "from", "tracking", "ahead"}

DetachedWords == {<<"H", "E", "A", "D", " ">>, EMPTY_STR}

\* a remote branch, and a tag with a character outside [\w\-./]
ShapeNames == {<<"o", "/", "f", "-", "2">>, <<"v", "+">>}

ShapeSubjects == {<<"s">>, <<"f", "i", "x", " ", "d", "e", "t", "a", "c", "h",
                             "e", "d", " ", "a", "t", " ", "x">>, <<"[", "W",
                                                                    "I", "P",
                                                                    "]", " ",
                                                                    "s">>}

\* the local branch of the active line of an attached HEAD
BranchName == <<"m">>

\* the active line of a local branch without upstream
LocalShapes ==
    [form : {"local"}, word : {EMPTY_STR}, name : {BranchName}, hash : {H1},
     subject : ShapeSubjects]

Shapes ==
    [form : FormNames, word : DetachedWords, name : ShapeNames,
     hash : {H1}, subject : ShapeSubjects]

DetachedOpen == <<"*", " ", "(">>
DetachedAtWords == <<"d", "e", "t", "a", "c", "h", "e", "d", " ", "a", "t",
                     " ">>
DetachedFromWords == <<"d", "e", "t", "a", "c", "h", "e", "d", " ", "f", "r",
                       "o", "m", " ">>
DetachedClose == <<")", " ">>
TrackingOpen == <<" ", "[">>
TrackingClose == <<"]", " ">>
AheadBehind == <<":", " ", "a", "h", "e", "a", "d", " ", "3", ",", " ", "b",
                 "e", "h", "i", "n", "d", " ", "1", "]", " ">>

\* "* m <hash>", the start of the active line of the local branch m
ActiveBranch(hash) == <<"*", " ">> \o BranchName \o <<" ">> \o hash

Render(sh) ==
    CASE sh.form = "at" ->
            DetachedOpen \o sh.word \o DetachedAtWords \o sh.name
            \o DetachedClose \o sh.hash \o <<" ">> \o sh.subject
      [] sh.form = "from" ->
            DetachedOpen \o sh.word \o DetachedFromWords \o sh.name
            \o DetachedClose \o sh.hash \o <<" ">> \o sh.subject
      [] sh.form = "tracking" ->
            ActiveBranch(sh.hash) \o TrackingOpen \o sh.name
            \o TrackingClose \o sh.subject
      [] sh.form = "ahead" ->
            ActiveBranch(sh.hash) \o TrackingOpen \o sh.name
            \o AheadBehind \o sh.subject
      [] sh.form = "local" ->
            ActiveBranch(sh.hash) \o <<" ">> \o sh.subject

\* active lines in none of the head states: the mark alone, a detached
\* head without its closing parenthesis or without its hash, and a bracket
\* that is not closed
MalformedLines ==
    {<<"*">>, <<"*", " ", "(", "H", "E", "A", "D", " ", "d", "e", "t", "a",
                "c", "h", "e", "d", " ", "a", "t", " ", "v", "+", " ", "a",
                "1", " ", "s">>, <<"*", " ", "(", "H", "E", "A", "D", " ", "d",
                                   "e", "t", "a", "c", "h", "e", "d", " ", "f",
                                   "r", "o", "m", " ", "v", "+", ")">>,
     <<"*", " ", "m", " ", "a", "1", " ", "[", "o", "/", "f", "-", "2", " ",
       "s">>}

\* listings without an active line
NoActiveListings == {<< >>, <<LineInactive>>}

\* listings with one active line, first or after a line that is not active,
\* and listings with none
ParseListings ==
    {<<Render(sh)>> : sh \in Shapes \cup LocalShapes}
    \cup {<<LineInactive, Render(sh)>> : sh \in Shapes \cup LocalShapes}
    \cup {<<l>> : l \in MalformedLines}
    \cup {<<LineInactive, l>> : l \in MalformedLines}
    \cup NoActiveListings

\* status() of a working copy in each of the head states
InitParse ==
    /\ decl = [name |-> ComponentName, url |-> LOCAL_PATH_INDICATOR,
               branch |-> RV, tag |-> EMPTY_STR, hash |-> EMPTY_STR]
    /\ srvHeads = << >>
    /\ srvTags = << >>
    /\ pathExists = TRUE
    /\ gitDirExists = TRUE
    /\ porcelain = EMPTY_STR
    /\ tags = << >>
    /\ heads = [n \in {RV} |-> H1]
    /\ remotes = << >>
    /\ tracking = << >>
    /\ head = H1
    /\ listing \in ParseListings
    /\ InitProcess

SpecParse == InitParse /\ [][NextStatus]_vars

\* ------------------------------------------------ names of new bindings

\* urls by their parts: a protocol and host or a local directory, then the
\* last two path segments, with and without characters of the unsafe set
UrlRoots == {<<"s", ":", "/", "/", "h", "/">>, <<"/", "p", "/">>}

UrlBases == {<<"b">>, <<"b", "$">>, <<"(", "b", ")">>}

UrlRepos == {<<"r">>, <<"r", "$">>, <<"r", "~", "1">>, <<"r", "*">>}

NamedUrls ==
    {root \o base \o <<"/">> \o repo :
        root \in UrlRoots, base \in UrlBases, repo \in UrlRepos}

\* checkout() of a branch of each url into a working copy without bindings
InitName ==
    /\ decl \in [name : {ComponentName}, url : NamedUrls, branch : {RV},
                  tag : {EMPTY_STR}, hash : {EMPTY_STR}]
    /\ srvHeads = [n \in {RV} |-> H2]
    /\ srvTags = << >>
    /\ pathExists = TRUE
    /\ gitDirExists = TRUE
    /\ tags = << >>
    /\ heads = << >>
    /\ remotes = << >>
    /\ tracking = << >>
    /\ head = H1
    /\ listing = BranchListing(heads, DetachedAt(head), head)
    /\ porcelain = EMPTY_STR
    /\ InitProcess

NextName ==
    \/ Checkout
    \/ CheckoutRef
    \/ CheckoutExternalRef
    \/ GitFetch
    \/ ValidateRef
    \/ GitCheckoutRef
    \/ RestoreCwd

SpecName == InitName /\ [][NextName]_vars

\* ----------------------------------------------------------- properties

HasCmd(c) == \E i \in DOMAIN cmds : cmds[i].cmd = c

Range(f) == {f[i] : i \in DOMAIN f}

ValidationErrors == {"invalid_ref", "not_unique_tag"}

Rejected == pc = "fatal" /\ fatal.kind \in ValidationErrors

\* the bindings of rs whose url is the declared url
MatchingBindings(rs) == {n \in DOMAIN rs : rs[n] = decl.url}

NoneSet ==
    decl.branch = EMPTY_STR /\ decl.tag = EMPTY_STR /\ decl.hash = EMPTY_STR

\* the sync evaluation of the running status() has returned
SyncDone == op = "status" /\ pc \in {"status_exists", "summary", "idle"}

\* C1: a reference that is a tag and also a branch (a local one, or one of
\* the remote the checkout uses) never passes validation: the validation
\* step ends in the fatal error of a tag that is not unique.
C1_CollisionIsFatal ==
    [][(pc = "validate" /\ RefIsTag(ref) /\ RefIsBranch(ref, remote_name))
        => (pc' = "fatal" /\ fatal'.kind = "not_unique_tag"
            /\ ~validated')]_vars

\* a remote-mode checkout rejected for a tag that is also a branch of the
\* remote only
C1_Witness ==
    /\ Rejected
    /\ fatal.kind = "not_unique_tag"
    /\ remote_name # EMPTY_STR
    /\ RefIsTag(ref)
    /\ ~RefIsLocalBranch(ref)
    /\ RefIsRemoteBranch(ref, remote_name)

\* C2: with the working copy, its .git and a HEAD hash present, the verdict
\* is STATUS_OK exactly when the expected reference resolves to HEAD's
\* commit and MODEL_MODIFIED otherwise, whatever the names are.
C2_VerdictFromHashes ==
    (SyncDone /\ pathExists /\ gitDirExists /\ head # EMPTY_STR)
        => LET res == GitRevparseCommit(expected_ref)
           IN stat.sync_state = IF res[1] = 0 /\ res[2] = head THEN STATUS_OK
                                ELSE MODEL_MODIFIED

\* a verdict STATUS_OK for a current and an expected name that differ
C2_Witness ==
    /\ SyncDone
    /\ pc = "idle"
    /\ stat.sync_state = STATUS_OK
    /\ stat.current_version # stat.expected_version

\* C3: once an operation has ended, normally or in a fatal error, the
\* working directory is the one the operation started in.
C3_CwdRestored == (op # "none" /\ pc \in {"idle", "fatal"}) => cwd = cwd0

\* C4: git checkout is issued only after the validation of this run has
\* passed; a rejected reference means no git checkout, and HEAD stays where
\* it was (where the clone of this run put it, if there was one).
C4_CheckoutOnlyAfterValidation ==
    /\ [](HasCmd("checkout") => validated)
    /\ [](Rejected => ~HasCmd("checkout"))
    /\ [](Rejected => (HasCmd("clone") \/ head = head0))
    /\ [][pc = "validate" => head' = head]_vars

\* a remote-mode checkout rejected after its fetch
C4_Witness ==
    /\ Rejected
    /\ HasCmd("fetch")
    /\ ~HasCmd("checkout")
    /\ head = head0

RemoteMode == op = "checkout" /\ decl.url # LOCAL_PATH_INDICATOR

\* C6: remote-mode checkout runs never make a second binding for the
\* declared url: remote add is issued only in a run that began without a
\* binding for it, and a run that began with one fetches from it and checks
\* out with it.
C6_OneBindingPerUrl ==
    /\ [][Cardinality(MatchingBindings(remotes)) <= 1
            => Cardinality(MatchingBindings(remotes')) <= 1]_vars
    /\ [](HasCmd("remote-add") => MatchingBindings(remotes0) = {})
    /\ []((RemoteMode /\ MatchingBindings(remotes0) # {})
            => \A i \in DOMAIN cmds :
                  /\ cmds[i].cmd = "fetch"
                        => cmds[i].args[1] \in MatchingBindings(remotes0)
                  /\ (cmds[i].cmd = "checkout" /\ decl.branch # EMPTY_STR)
                        => \E n \in MatchingBindings(remotes0) :
                              cmds[i].args[1] = SlashJoin(n, decl.branch))

\* a finished run that found the one binding of the declared url and used it
C6_Witness ==
    /\ RemoteMode
    /\ pc = "idle"
    /\ decl.branch # EMPTY_STR
    /\ MatchingBindings(remotes0) = {B_R}
    /\ MatchingBindings(remotes) = {B_R}
    /\ HasCmd("fetch")
    /\ HasCmd("checkout")

\* C7: for a declaration with none of branch, tag and hash, an operation on
\* an existing working copy issues no git command and ends in the fatal
\* configuration error.
C7_ConfigErrorBeforeAnyCommand ==
    (NoneSet /\ op # "none" /\ pathExists /\ gitDirExists)
        => /\ cmds = << >>
           /\ (pc \in {"idle", "fatal"} => fatal.kind = "configuration")

\* C8: for a branch of a remote url that no binding has, the verdict is
\* never STATUS_OK, and MODEL_MODIFIED when HEAD has a hash.
C8_UnknownRemoteNeverOk ==
    (SyncDone /\ pathExists /\ gitDirExists /\ decl.branch # EMPTY_STR
        /\ decl.url # LOCAL_PATH_INDICATOR /\ MatchingBindings(remotes) = {})
        => /\ stat.sync_state # STATUS_OK
           /\ (head # EMPTY_STR => stat.sync_state = MODEL_MODIFIED)

\* C9: the name made for a new binding is not the name of an existing
\* binding, so the remote add succeeds and the declared url has a binding.
C9_NewNameIsFree ==
    HasCmd("remote-add")
        => /\ fatal.kind # "remote-add failed"
           /\ remote_name \notin DOMAIN remotes0
           /\ remote_name \in MatchingBindings(remotes)

\* C10: the message of a rejected reference carries the component name, the
\* reference that was validated and the declared url.
C10_MessageNamesAll ==
    Rejected => {decl.name, ref, decl.url} \subseteq Range(fatal.msg.args)

\* the positions of the command c in the log of the operation
Positions(c) == {i \in DOMAIN cmds : cmds[i].cmd = c}

\* C11: a declared tag that is a tag and no branch (local, or of the binding
\* in use) is a unique tag and passes validation, and git checkout gets the
\* tag verbatim, in remote mode only after the fetch.
C11_UniqueTagVerbatim ==
    /\ [][(pc = "validate" /\ decl.tag # EMPTY_STR /\ RefIsTag(ref)
            /\ ~RefIsBranch(ref, remote_name))
           => /\ IsUniqueTag(ref, remote_name).unique
              /\ validated'
              /\ pc' = "git_checkout"]_vars
    /\ []((op = "checkout" /\ decl.tag # EMPTY_STR)
            => \A i \in Positions("checkout") :
                  /\ cmds[i].args = <<decl.tag>>
                  /\ RemoteMode => \E j \in Positions("fetch") : j < i)

\* a finished remote-mode checkout of a tag that was fetched, at the tag
C11_Witness ==
    /\ RemoteMode
    /\ pc = "idle"
    /\ decl.tag # EMPTY_STR
    /\ decl.tag \in DOMAIN tags
    /\ decl.tag \notin DOMAIN heads
    /\ HasCmd("fetch")
    /\ HasCmd("checkout")
    /\ head = tags[decl.tag]
    /\ head # head0

\* the validation probes
Probes == {"show-ref-tag", "ls-remote", "show-ref-branch", "rev-parse"}

\* the place of a command in the order find or create, fetch, validate,
\* checkout
Stage(c) ==
    CASE c = "remote-verbose" -> 1
      [] c = "remote-add" -> 2
      [] c = "fetch" -> 3
      [] c \in Probes -> 4
      [] c = "checkout" -> 5
      [] OTHER -> 0

\* C12: a remote-mode checkout of an existing working copy issues its
\* commands in the order lookup, remote add (only when no binding matched),
\* fetch from the binding of the declared url (tags included), validation
\* probes against that binding, checkout; nothing after the lookup happens
\* without the fetch.
C12_RemoteCheckoutOrder ==
    /\ []((RemoteMode /\ path0) =>
            /\ \A i, j \in DOMAIN cmds :
                  i < j => Stage(cmds[i].cmd) <= Stage(cmds[j].cmd)
            /\ \A c \in {"remote-verbose", "remote-add", "fetch", "checkout"} :
                  Cardinality(Positions(c)) <= 1
            /\ cmds # << >> => cmds[1].cmd = "remote-verbose"
            /\ HasCmd("remote-add") <=>
                  (Len(cmds) >= 2 /\ MatchingBindings(remotes0) = {})
            /\ (\E i \in DOMAIN cmds : Stage(cmds[i].cmd) >= 4)
                  => HasCmd("fetch")
            /\ \A j \in Positions("fetch") :
                  /\ cmds[j].args[1] \in MatchingBindings(remotes)
                  /\ \A i \in Positions("ls-remote") :
                        cmds[i].args[1] = cmds[j].args[1])
    /\ [][(pc = "fetch" /\ pc' = "validate")
            => (HasCmd("fetch")' /\ DOMAIN srvTags \subseteq DOMAIN tags')]_vars

\* a finished run that made the binding, fetched, probed the remote and
\* checked out
C12_Witness ==
    /\ RemoteMode
    /\ path0
    /\ pc = "idle"
    /\ HasCmd("remote-add")
    /\ HasCmd("ls-remote")
    /\ HasCmd("checkout")
    /\ srvTags # << >>

\* a finished checkout run on an existing working copy, of a branch of a
\* remote url that had no binding
NewBindingRun ==
    /\ RemoteMode
    /\ path0
    /\ pc = "idle"
    /\ decl.branch # EMPTY_STR
    /\ MatchingBindings(remotes0) = {}

\* C13: a successful checkout of branch B of a remote url without a binding
\* issues one remote add, of the synthesized name N ("b_r" for s://h/b/r)
\* and the url, leaves N as the only binding of the url, and checks out
\* "N/B", the branch as fetched from the url.
C13_NewBindingQualifiesBranch ==
    NewBindingRun =>
        LET N == CreateRemoteName(decl.url)
        IN /\ Cardinality(Positions("remote-add")) = 1
           /\ \A i \in Positions("remote-add") : cmds[i].args = <<N, decl.url>>
           /\ decl.url = U1 => N = B_R
           /\ MatchingBindings(remotes) = {N}
           /\ Cardinality(Positions("checkout")) = 1
           /\ \A i \in Positions("checkout") :
                 cmds[i].args = <<SlashJoin(N, decl.branch)>>
           /\ decl.branch \in DOMAIN srvHeads
           /\ head = srvHeads[decl.branch]

\* such a run, started next to a binding of another url, that moved HEAD
C13_Witness ==
    /\ NewBindingRun
    /\ remotes0 # << >>
    /\ head # head0

\* the running or last operation is a checkout in local-path mode, of a
\* working copy that existed
LocalModeRun == op = "checkout" /\ decl.url = LOCAL_PATH_INDICATOR /\ path0

\* the commands that read or change remotes
RemoteCmds == {"clone", "remote-verbose", "remote-add", "fetch", "ls-remote"}

\* C14: a local-mode checkout of an existing working copy issues no command
\* on remotes and leaves the bindings as they were; validation passes
\* exactly for a tag that is no local branch, a local branch that is no tag,
\* or a hash; git checkout gets the declared reference verbatim.
C14_LocalModeIsLocal ==
    /\ [](LocalModeRun =>
            /\ \A i \in DOMAIN cmds : cmds[i].cmd \notin RemoteCmds
            /\ remotes = remotes0
            /\ \A i \in Positions("checkout") : cmds[i].args = <<SelectRef>>)
    /\ [][(LocalModeRun /\ pc = "validate") =>
            (validated' <=>
                /\ RefIsTag(SelectRef) \/ RefIsLocalBranch(SelectRef)
                       \/ RefIsHash(SelectRef)
                /\ ~(RefIsTag(SelectRef) /\ RefIsLocalBranch(SelectRef)))]_vars

\* a finished local-mode checkout of a branch in a working copy with bindings
C14_Witness ==
    /\ LocalModeRun
    /\ pc = "idle"
    /\ decl.branch # EMPTY_STR
    /\ remotes # << >>
    /\ HasCmd("checkout")
    /\ head # head0

\* C15: checkout() clones exactly when the directory did not exist at the
\* start of the call: the clone of the declared url is then the first
\* command and the only clone, and the checkout of the reference follows in
\* the cloned directory; with the directory present there is no clone.
C15_CloneIffAbsent ==
    /\ [](op = "checkout" =>
            /\ path0 => ~HasCmd("clone")
            /\ (~path0 /\ pc # "clone") => HasCmd("clone")
            /\ \A i \in Positions("clone") :
                  i = 1 /\ cmds[i].args = <<decl.url>>)
    /\ [][(pc = "clone" /\ pc' # "fatal")
            => (pc' = "checkout_ref" /\ pathExists')]_vars
    /\ [][(op = "checkout" /\ pc \notin {"idle", "clone"} /\ cmds' # cmds)
            => (cwd = RepoDir /\ pathExists)]_vars

\* a finished checkout that cloned and then checked the reference out
C15_Witness ==
    /\ op = "checkout"
    /\ ~path0
    /\ pc = "idle"
    /\ Positions("clone") = {1}
    /\ HasCmd("checkout")
    /\ pathExists

\* C16: when status() has returned for an existing directory, the clean
\* state is STATUS_OK for an empty porcelain output and DIRTY for any other,
\* whatever the sync state is.
C16_DirtyIffOutput ==
    (op = "status" /\ pc = "idle" /\ pathExists)
        => stat.clean_state = IF porcelain = EMPTY_STR THEN STATUS_OK ELSE DIRTY

\* a dirty working copy whose only change is staged, and which is in sync
C16_Witness ==
    /\ op = "status"
    /\ pc = "idle"
    /\ pathExists
    /\ porcelain # EMPTY_STR
    /\ porcelain[1] # " "
    /\ stat.clean_state = DIRTY
    /\ stat.sync_state = STATUS_OK

\* what _current_ref is to return for a head state: the name for detached
\* at, the hash for detached from, the upstream for a tracking branch
Expected(sh) == IF sh.form = "from" THEN sh.hash ELSE sh.name

\* C17: for the first active line of the listing, _current_ref returns the
\* name X of "(HEAD detached at X)", the hash H of "(HEAD detached from X) H"
\* and the upstream of "[remote/branch]" with or without ahead/behind counts.
C17_CurrentRefOfShape ==
    (op = "status" /\ HasCmd("branch-vv"))
        => \A sh \in Shapes :
              ActiveLine(listing) = Render(sh)
                  => fatal = NoFatal /\ stat.current_version = Expected(sh)

\* C18: git checkout is issued for a declared tag only when the tag is
\* usable: a tag that is no branch, or no tag and no branch but a hash.
C18_OnlyUsableTags ==
    [][(op = "checkout" /\ decl.tag # EMPTY_STR /\ pc = "git_checkout"
        /\ cmds' # cmds)
       => IsUniqueTag(decl.tag, remote_name).unique]_vars

\* C19: a reference that is no tag and no branch but resolves to a commit
\* (a hash, an abbreviated hash, HEAD) is a unique tag, passes validation
\* and is checked out as it is.
C19_CommitIsPseudoTag ==
    [][(pc = "validate" /\ ~RefIsTag(ref) /\ ~RefIsBranch(ref, remote_name)
        /\ GitRevparseCommit(ref)[1] = 0)
       => /\ IsUniqueTag(ref, remote_name).unique
          /\ validated'
          /\ pc' = "git_checkout"
          /\ CheckoutTarget' = ref]_vars

\* C20: for an existing directory the verdict is UNKNOWN exactly when .git
\* is missing or HEAD has no hash, and then the expected reference was not
\* resolved: no rev-parse was issued.
C20_UnknownShortCircuits ==
    (SyncDone /\ pathExists)
        => /\ stat.sync_state = UNKNOWN
                 <=> (~gitDirExists \/ head = EMPTY_STR)
           /\ stat.sync_state = UNKNOWN => ~HasCmd("rev-parse")

\* UNKNOWN for a working copy without commits whose expected reference does
\* not resolve
C20_Witness ==
    /\ SyncDone
    /\ pc = "idle"
    /\ gitDirExists
    /\ head = EMPTY_STR
    /\ GitRevparseCommit(expected_ref)[1] # 0
    /\ stat.sync_state = UNKNOWN

\* the sync evaluation has returned with the names on record
NamesRecorded == SyncDone /\ pathExists /\ gitDirExists

\* C21: the expected reference, which is also the expected version on
\* record, is the declared branch in local-path mode, "N/branch" for a
\* branch of a remote url bound to N, and the declared hash or tag as it is.
C21_ExpectedKey ==
    NamesRecorded =>
        /\ stat.expected_version = expected_ref
        /\ (decl.branch # EMPTY_STR /\ decl.url = LOCAL_PATH_INDICATOR)
              => expected_ref = decl.branch
        /\ (decl.branch # EMPTY_STR /\ decl.url # LOCAL_PATH_INDICATOR
              /\ MatchingBindings(remotes) # {})
              => \E N \in MatchingBindings(remotes) :
                    expected_ref = N \o <<"/">> \o decl.branch
        /\ decl.hash # EMPTY_STR => expected_ref = decl.hash
        /\ decl.tag # EMPTY_STR => expected_ref = decl.tag

\* the expected version of a branch of a remote url that has a binding
C21_Witness ==
    /\ NamesRecorded
    /\ pc = "idle"
    /\ decl.branch # EMPTY_STR
    /\ MatchingBindings(remotes) = {ORIGIN}
    /\ stat.expected_version = ORIGIN \o <<"/">> \o decl.branch

\* C22: the name made for a new binding has no path separator and no other
\* character of the unsafe set, in the part from the second-to-last path
\* segment and in the part from the last.
C22_NameIsSafe ==
    HasCmd("remote-add")
        => \A i \in DOMAIN remote_name : remote_name[i] \notin UnsafeCharacters

\* C23: for the active line of a local branch without upstream,
\* "* <branch> <hash> <subject>", _current_ref returns the branch name,
\* whatever the subject is.
C23_LocalBranchName ==
    (op = "status" /\ HasCmd("branch-vv"))
        => \A sh \in LocalShapes :
              ActiveLine(listing) = Render(sh)
                  => fatal = NoFatal /\ stat.current_version = BranchName

\* C24: _current_ref gives the empty name and no error when no line of the
\* listing is active, and for an active line in none of the head states it
\* ends in the fatal error whose message holds the line and the listing
C24_UnparsedIsFatal ==
    (op = "status" /\ HasCmd("branch-vv"))
        => /\ ActiveLine(listing) = EMPTY_STR
                => fatal = NoFatal /\ stat.current_version = EMPTY_STR
           /\ ActiveLine(listing) \in MalformedLines
                => /\ pc = "fatal"
                   /\ fatal.kind = "parser"
                   /\ {ActiveLine(listing), JoinLines(listing)}
                          \subseteq Range(fatal.msg.args)
\* the commands that change the working copy or its bindings
ChangingCmds == {"clone", "remote-add", "fetch", "checkout"}

\* the steps of _check_sync and _check_sync_logic
SyncStages ==
    {"check_sync", "sync_logic", "sync_expected", "sync_names",
     "sync_compare"}

OneRefSet ==
    Cardinality({f \in {"branch", "tag", "hash"} : decl[f] # EMPTY_STR}) = 1

\* the status() that follows a checkout() that returned has ended
StatusEnded == op = "status" /\ op0 = "checkout" /\ pc \in {"idle", "fatal"}

\* C26: with exactly one of branch, tag and hash declared, the status() that
\* follows a checkout() that returned without fatal error returns and
\* reports the sync state OK, in local and in remote mode
C26_InSyncAfterCheckout ==
    (StatusEnded /\ OneRefSet)
        => pc = "idle" /\ stat.sync_state = STATUS_OK
====
